---------------------------- MODULE Spec2Model ----------------------------
(***************************************************************************)
(* acustica_de_salas: the Delany-Bazley and Johnson-Champoux-Allard        *)
(* macroscopic models (macroscopic_models.py, utils.py).                   *)
(*                                                                         *)
(* The functions are pure; a state of the model is one call: the function  *)
(* called, its arguments, the locals it computed and what it returned or   *)
(* raised.                                                                 *)
(*                                                                         *)
(* Numbers are binary floating point as in Python / numpy (IEEE 754        *)
(* binary64), scaled down so that TLC's integers can carry them: a         *)
(* significand of Prec bits instead of 53, exponents within EMin..EMax     *)
(* instead of -1074..1023, round to nearest even, overflow to inf, NaN     *)
(* propagation.  Two simplifications: there is one zero (no -0.0) and      *)
(* results below 2^EMin flush to zero (no subnormals).                     *)
(***************************************************************************)
EXTENDS Integers, Sequences, FiniteSets, TLC

(***************************************************************************)
(* Bounds of the model.                                                    *)
(***************************************************************************)
Prec == 10      \* bits of significand (binary64: 53)
EMax == 64      \* a finite value is below 2^EMax (binary64: 1024)
MaxLen == 2     \* longest frequency vector passed to a call

EMin == -EMax   \* a nonzero value is at least 2^EMin (binary64: -1074)

(***************************************************************************)
(* Floating point numbers.  A finite value is m * 2^e with m = 0 (and      *)
(* e = 0) or 2^(Prec-1) <= |m| < 2^Prec.                                   *)
(***************************************************************************)
NaN == [k |-> "nan", m |-> 0, e |-> 0]
Inf(sgn) == [k |-> "inf", m |-> sgn, e |-> 0]
Zero == [k |-> "fin", m |-> 0, e |-> 0]

Abs(n) == IF n < 0 THEN -n ELSE n
Sgn(n) == IF n < 0 THEN -1 ELSE IF n > 0 THEN 1 ELSE 0

RECURSIVE BitLen(_)
BitLen(n) == IF n = 0 THEN 0 ELSE 1 + BitLen(n \div 2)

IsNaN(x) == x.k = "nan"
IsInf(x) == x.k = "inf"
IsFinite(x) == x.k = "fin"
IsZero(x) == x.k = "fin" /\ x.m = 0
Sign(x) == Sgn(x.m)

\* A normalised significand and exponent, with the range check of the format.
Mk(m, e) ==
    IF m = 0 THEN Zero
    ELSE IF e + Prec > EMax THEN Inf(Sgn(m))
    ELSE IF e + Prec < EMin + 1 THEN Zero
    ELSE [k |-> "fin", m |-> m, e |-> e]

\* The float with sign s and magnitude nearest to (q + r / 2^sh) * 2^(e + sh),
\* 0 <= r < 2^sh, 2^(Prec-1) <= q < 2^Prec: up when the remainder is above
\* the half, or at the half and q is odd (ties to even).
RoundUp(q, r, half) == r > half \/ (r = half /\ q % 2 = 1)
RoundShifted(s, q, r, sh, e) ==
    IF ~RoundUp(q, r, 2^(sh - 1)) THEN Mk(s * q, e + sh)
    ELSE IF q + 1 = 2^Prec THEN Mk(s * 2^(Prec - 1), e + sh + 1)
    ELSE Mk(s * (q + 1), e + sh)

\* The same for a magnitude a of L bits.
RoundBits(s, a, L, e) ==
    IF L <= Prec THEN Mk(s * a * 2^(Prec - L), e - (Prec - L))
    ELSE RoundShifted(s, a \div 2^(L - Prec), a % 2^(L - Prec), L - Prec, e)

\* The float nearest to M * 2^e (ties to even), M any integer.
Round(M, e) == IF M = 0 THEN Zero ELSE RoundBits(Sgn(M), Abs(M), BitLen(Abs(M)), e)

\* floor(n * 2^k / d) and whether the division left a remainder, n, d > 0.
RECURSIVE DivBits(_, _, _)
DivBits(n, d, k) ==
    IF k = 0 THEN [q |-> n \div d, r |-> n % d]
    ELSE LET p == DivBits(n, d, k - 1)
         IN  [q |-> 2 * p.q + (2 * p.r) \div d, r |-> (2 * p.r) % d]

\* The float nearest to the rational n / d (d > 0): how a literal such as
\* 9.08 or 1.84e-5 is read.
LitBits(s, p, k) == Round(s * (2 * p.q + (IF p.r = 0 THEN 0 ELSE 1)), -k - 1)
LitAt(s, n, d, k) == LitBits(s, DivBits(n, d, k), k)
Lit(n, d) ==
    IF n = 0 THEN Zero
    ELSE LitAt(Sgn(n), Abs(n), d,
               IF Prec + 2 + BitLen(d) > BitLen(Abs(n))
               THEN Prec + 2 + BitLen(d) - BitLen(Abs(n)) ELSE 0)

FOne == Lit(1, 1)
FTwo == Lit(2, 1)
FHalf == Lit(1, 2)

\* 2 * floor(n / d), plus one when the division left a remainder: the
\* quotient with a sticky bit, n >= 0, d > 0.
Sticky(n, d) == 2 * (n \div d) + (IF n % d = 0 THEN 0 ELSE 1)

FNeg(x) == IF IsNaN(x) THEN NaN ELSE [x EXCEPT !.m = -x.m]
FAbs(x) == IF IsNaN(x) THEN NaN ELSE [x EXCEPT !.m = Abs(x.m)]

\* x < y and x <= y on floats; every comparison with NaN is false.
FLess(x, y) ==
    /\ ~IsNaN(x) /\ ~IsNaN(y)
    /\ IF IsInf(x) \/ IsInf(y)
       THEN \/ IsInf(x) /\ x.m < 0 /\ ~(IsInf(y) /\ y.m < 0)
            \/ IsInf(y) /\ y.m > 0 /\ ~(IsInf(x) /\ x.m > 0)
       ELSE IF Sign(x) # Sign(y) THEN Sign(x) < Sign(y)
       ELSE IF Sign(x) = 0 THEN FALSE
       ELSE IF x.e = y.e THEN x.m < y.m
       ELSE IF Sign(x) > 0 THEN x.e < y.e ELSE x.e > y.e
FLeq(x, y) == ~IsNaN(x) /\ ~IsNaN(y) /\ (x = y \/ FLess(x, y))

FMul(x, y) ==
    IF IsNaN(x) \/ IsNaN(y) THEN NaN
    ELSE IF IsInf(x) \/ IsInf(y)
         THEN IF IsZero(x) \/ IsZero(y) THEN NaN ELSE Inf(Sign(x) * Sign(y))
    ELSE Round(x.m * y.m, x.e + y.e)

FDiv(x, y) ==
    IF IsNaN(x) \/ IsNaN(y) THEN NaN
    ELSE IF IsInf(x) THEN (IF IsInf(y) THEN NaN
                           ELSE Inf(x.m * (IF Sign(y) < 0 THEN -1 ELSE 1)))
    ELSE IF IsInf(y) THEN Zero
    ELSE IF IsZero(y) THEN (IF IsZero(x) THEN NaN ELSE Inf(Sign(x)))
    ELSE IF IsZero(x) THEN Zero
    ELSE Round(Sign(x) * Sign(y) * Sticky(Abs(x.m) * 2^(Prec + 2), Abs(y.m)),
               x.e - y.e - Prec - 3)

FAdd(x, y) ==
    IF IsNaN(x) \/ IsNaN(y) THEN NaN
    ELSE IF IsInf(x) THEN (IF IsInf(y) /\ y.m # x.m THEN NaN ELSE x)
    ELSE IF IsInf(y) THEN y
    ELSE IF IsZero(x) THEN y
    ELSE IF IsZero(y) THEN x
    ELSE IF x.e - y.e > Prec + 2 THEN x
    ELSE IF y.e - x.e > Prec + 2 THEN y
    ELSE IF x.e >= y.e THEN Round(x.m * 2^(x.e - y.e) + y.m, y.e)
    ELSE Round(x.m + y.m * 2^(y.e - x.e), x.e)

FSub(x, y) == FAdd(x, FNeg(y))

\* floor(sqrt(n)) by bisection on lo..hi.
RECURSIVE ISqrtIn(_, _, _)
ISqrtIn(n, lo, hi) ==
    IF lo >= hi THEN lo
    ELSE LET mid == (lo + hi + 1) \div 2
         IN  IF mid * mid <= n THEN ISqrtIn(n, mid, hi)
             ELSE ISqrtIn(n, lo, mid - 1)
ISqrt(n) == ISqrtIn(n, 0, 2^(Prec + 2))

\* sqrt of a float, correctly rounded; NaN below zero.
FSqrt(x) ==
    IF IsNaN(x) THEN NaN
    ELSE IF IsInf(x) THEN (IF x.m > 0 THEN x ELSE NaN)
    ELSE IF IsZero(x) THEN Zero
    ELSE IF Sign(x) < 0 THEN NaN
    ELSE LET sh == IF (x.e - Prec - 2) % 2 = 0 THEN Prec + 2 ELSE Prec + 3
             M == x.m * 2^sh
             r == ISqrt(M)
             R == 2 * r + (IF r * r = M THEN 0 ELSE 1)
         IN  Round(R, (x.e - sh) \div 2 - 1)


\* The product of x ** (2^q) over the positions q <= p whose bit is set in
\* the exponent m * 2^e, given r = x ** (2^p): one square root per position.
RECURSIVE FPowDown(_, _, _, _)
FPowDown(r, p, m, e) ==
    IF p < e \/ m % 2^(p - e + 1) = 0 THEN FOne
    ELSE IF (m \div 2^(p - e)) % 2 = 1
         THEN FMul(r, FPowDown(FSqrt(r), p - 1, m, e))
    ELSE FPowDown(FSqrt(r), p - 1, m, e)

\* The same over the positions q >= p: one squaring per position.
RECURSIVE FPowUp(_, _, _, _)
FPowUp(r, p, m, e) ==
    IF p - e >= Prec \/ m < 2^(IF p < e THEN 0 ELSE p - e) THEN FOne
    ELSE IF p >= e /\ (m \div 2^(p - e)) % 2 = 1
         THEN FMul(r, FPowUp(FMul(r, r), p + 1, m, e))
    ELSE FPowUp(FMul(r, r), p + 1, m, e)

\* x ** (m * 2^e) for x > 0, m > 0.
FPowBits(x, m, e) == FMul(FPowUp(x, 0, m, e), FPowDown(FSqrt(x), -1, m, e))

\* Whether the finite float y is an integer, and an odd one.
IsIntF(y) == y.e >= 0 \/ (y.e > -Prec /\ y.m % 2^(-y.e) = 0)
IsOddF(y) == IsIntF(y) /\ y.e <= 0 /\ (y.m \div 2^(-y.e)) % 2 = 1

\* pow(x, y) of the C library for a finite exponent y # 0, which is what
\* ndarray ** float and float ** int compute: NaN for a negative base and a
\* fractional exponent, inf for 0 ** negative.
FPowSigned(x, y, p) == IF Sign(x) < 0 /\ IsOddF(y) THEN FNeg(p) ELSE p
FPowOf(x, y, p) ==
    FPowSigned(x, y, IF Sign(y) < 0 THEN FDiv(FOne, p) ELSE p)
FPow(x, y) ==
    IF IsNaN(x) THEN NaN
    ELSE IF IsZero(x) THEN (IF Sign(y) < 0 THEN Inf(1) ELSE Zero)
    ELSE IF IsInf(x)
         THEN (IF Sign(y) < 0 THEN Zero
               ELSE Inf(IF x.m < 0 /\ IsOddF(y) THEN -1 ELSE 1))
    ELSE IF Sign(x) < 0 /\ ~IsIntF(y) THEN NaN
    ELSE FPowOf(x, y, FPowBits(FAbs(x), Abs(y.m), y.e))

(***************************************************************************)
(* Complex numbers: a pair of floats, as complex128 and Python's complex.  *)
(***************************************************************************)
Cx(a, b) == [re |-> a, im |-> b]
CIsFinite(z) == IsFinite(z.re) /\ IsFinite(z.im)

CAdd(z, w) == Cx(FAdd(z.re, w.re), FAdd(z.im, w.im))
CSub(z, w) == Cx(FSub(z.re, w.re), FSub(z.im, w.im))
CMul(z, w) == Cx(FSub(FMul(z.re, w.re), FMul(z.im, w.im)),
                 FAdd(FMul(z.re, w.im), FMul(z.im, w.re)))

\* numpy's complex division (Smith's algorithm): with rat = im / re of the
\* divisor when |re| >= |im| and scl = 1 / (re + im * rat), and the mirror
\* image when |re| < |im|; a zero divisor divides both parts by |re| = 0.
SmithRe(z, rat, scl) ==
    Cx(FMul(FAdd(z.re, FMul(z.im, rat)), scl),
       FMul(FSub(z.im, FMul(z.re, rat)), scl))
SmithIm(z, rat, scl) ==
    Cx(FMul(FAdd(FMul(z.re, rat), z.im), scl),
       FMul(FSub(FMul(z.im, rat), z.re), scl))
SmithScale(p, q, rat) == FDiv(FOne, FAdd(p, FMul(q, rat)))
SmithReRat(z, w, rat) == SmithRe(z, rat, SmithScale(w.re, w.im, rat))
SmithImRat(z, w, rat) == SmithIm(z, rat, SmithScale(w.im, w.re, rat))
CDiv(z, w) ==
    IF FLeq(FAbs(w.im), FAbs(w.re))
    THEN IF IsZero(w.re) /\ IsZero(w.im)
         THEN Cx(FDiv(z.re, FAbs(w.re)), FDiv(z.im, FAbs(w.re)))
         ELSE SmithReRat(z, w, FDiv(w.im, w.re))
    ELSE SmithImRat(z, w, FDiv(w.re, w.im))

Hypot(a, b) ==
    IF IsInf(a) \/ IsInf(b) THEN Inf(1)
    ELSE FSqrt(FAdd(FMul(a, a), FMul(b, b)))

\* copysign(t, b) with the one zero of the model counted as positive.
CopySign(t, b) == IF Sign(b) < 0 THEN FNeg(FAbs(t)) ELSE FAbs(t)

\* The principal square root, as the C library's csqrt computes it: for
\* re >= 0, t = sqrt((re + |z|) / 2) and the root is t + j im / (2 t); for
\* re < 0, t = sqrt((-re + |z|) / 2) and the root is |im| / (2 t) +- j t.
CSqrtRight(b, t) == Cx(t, FDiv(b, FMul(FTwo, t)))
CSqrtLeft(b, t) == Cx(FDiv(FAbs(b), FMul(FTwo, t)), CopySign(t, b))
CSqrtOf(a, b) ==
    IF IsZero(a) /\ IsZero(b) THEN Cx(Zero, b)
    ELSE IF IsInf(b) THEN Cx(Inf(1), b)
    ELSE IF IsNaN(a) THEN Cx(a, NaN)
    ELSE IF IsInf(a)
         THEN (IF a.m < 0 THEN Cx(FAbs(FSub(b, b)), CopySign(a, b))
               ELSE Cx(a, CopySign(FSub(b, b), b)))
    ELSE IF FLeq(Zero, a)
         THEN CSqrtRight(b, FSqrt(FMul(FAdd(a, Hypot(a, b)), FHalf)))
    ELSE CSqrtLeft(b, FSqrt(FMul(FAdd(FNeg(a), Hypot(a, b)), FHalf)))
CSqrt(z) == CSqrtOf(z.re, z.im)

(***************************************************************************)
(* Python values.  t is the type: a float or complex scalar, an ndarray of *)
(* float64 ("farray") or complex128 ("carray"), a list, or an exception    *)
(* on its way out ("raise", v the exception's name); "absent" is an        *)
(* argument the caller did not pass.                                       *)
(***************************************************************************)
PyF(x) == [t |-> "float", v |-> x]
PyC(z) == [t |-> "complex", v |-> z]
NdF(s) == [t |-> "farray", v |-> s]
NdC(s) == [t |-> "carray", v |-> s]
PyList(s) == [t |-> "list", v |-> s]
Raise(exc) == [t |-> "raise", v |-> exc]
Absent == [t |-> "absent", v |-> "absent"]

IsRaise(a) == a.t = "raise"
IsArr(a) == a.t \in {"farray", "carray"}
IsCplx(a) == a.t \in {"complex", "carray"}

\* Faulty variant: every element of the loop reads the first element.
Item_first(a, i) == IF a.t \in {"float", "complex"} THEN a.v ELSE a.v[1]
IsScalar(a) == a.t \in {"float", "complex"}
\* The elements an operand contributes to the elementwise loop: a scalar is
\* broadcast, a list beside an ndarray is converted to one.
Item(a, i) == IF IsScalar(a) THEN a.v ELSE a.v[i]
Wrap(isarr, iscplx, out) ==
    IF isarr THEN (IF iscplx THEN NdC(out) ELSE NdF(out))
    ELSE IF iscplx THEN PyC(out[1]) ELSE PyF(out[1])

\* One element of a float64 or complex128 operation: a float operand is
\* cast to complex (im = 0) when the other one is complex.
Promote(x, isc) == IF isc THEN x ELSE Cx(x, Zero)
FOp(op, x, y) ==
    CASE op = "+" -> FAdd(x, y) [] op = "-" -> FSub(x, y)
      [] op = "*" -> FMul(x, y) [] op = "/" -> FDiv(x, y)
COp(op, z, w) ==
    CASE op = "+" -> CAdd(z, w) [] op = "-" -> CSub(z, w)
      [] op = "*" -> CMul(z, w) [] op = "/" -> CDiv(z, w)
ElemOp(op, x, xc, y, yc) ==
    IF ~xc /\ ~yc THEN FOp(op, x, y)
    ELSE COp(op, Promote(x, xc), Promote(y, yc))

IsZeroScalar(b) ==
    IF IsCplx(b) THEN IsZero(b.v.re) /\ IsZero(b.v.im) ELSE IsZero(b.v)

\* a op b for the operand types the modules use.  The left operand is
\* evaluated first, so its exception wins.  A list times or over a float
\* is a TypeError; scalars divide by zero with ZeroDivisionError; an
\* operation with an ndarray is numpy's elementwise loop, in which element
\* i of the result is computed from element i alone and which never raises
\* (numpy warns and stores inf or nan).
BinOp(op, a, b) ==
    IF IsRaise(a) THEN a
    ELSE IF IsRaise(b) THEN b
    ELSE IF (a.t = "list" \/ b.t = "list") /\ ~IsArr(a) /\ ~IsArr(b)
         THEN Raise("TypeError")
    ELSE IF op = "/" /\ IsScalar(a) /\ IsScalar(b) /\ IsZeroScalar(b)
         THEN Raise("ZeroDivisionError")
    ELSE Wrap(~(IsScalar(a) /\ IsScalar(b)), IsCplx(a) \/ IsCplx(b),
              [i \in 1..(IF ~IsScalar(a) THEN Len(a.v)
                         ELSE IF ~IsScalar(b) THEN Len(b.v) ELSE 1) |->
                  ElemOp(op, Item(a, i), IsCplx(a), Item(b, i), IsCplx(b))])

PyAdd(a, b) == BinOp("+", a, b)
PySub(a, b) == BinOp("-", a, b)
PyMul(a, b) == BinOp("*", a, b)
PyDiv(a, b) == BinOp("/", a, b)

\* a ** y, y a float scalar.  float ** float raises OverflowError when a
\* finite base overflows and ZeroDivisionError for 0.0 to a negative power;
\* ndarray ** float is elementwise pow and never raises.  (The modules raise
\* scalars to the literal 2 only; a negative float to a fractional power,
\* which Python makes complex, does not occur.)
\* Faulty variant: an overflowing power stored as inf, as numpy would.
PyPowScalar_quiet(a, r) == PyF(r)
PyPowScalar(a, r) ==
    IF IsFinite(a.v) /\ IsInf(r) THEN Raise("OverflowError") ELSE PyF(r)
PyPow(a, y) ==
    IF IsRaise(a) THEN a
    ELSE IF IsRaise(y) THEN y
    ELSE IF a.t = "farray" THEN NdF([i \in 1..Len(a.v) |-> FPow(a.v[i], y.v)])
    ELSE IF a.t = "float"
         THEN (IF IsZero(a.v) /\ Sign(y.v) < 0 THEN Raise("ZeroDivisionError")
               ELSE PyPowScalar(a, FPow(a.v, y.v)))
    ELSE Raise("TypeError")

\* np.sqrt: elementwise; of a complex128 array the principal square root.
NpSqrt(a) ==
    IF IsRaise(a) THEN a
    ELSE IF IsCplx(a)
         THEN Wrap(~IsScalar(a), TRUE,
                   [i \in 1..(IF IsScalar(a) THEN 1 ELSE Len(a.v)) |->
                       CSqrt(Item(a, i))])
    ELSE Wrap(~IsScalar(a), FALSE,
              [i \in 1..(IF IsScalar(a) THEN 1 ELSE Len(a.v)) |->
                  FSqrt(Item(a, i))])

(***************************************************************************)
(* The literals of the two modules.                                        *)
(***************************************************************************)
One == PyF(FOne)
Two == PyF(FTwo)
J == PyC(Cx(Zero, Lit(1, 1)))            \* 1j
FourJ == PyC(Cx(Zero, Lit(4, 1)))        \* 4j
Pi == PyF(Lit(314159265, 100000000))    \* np.pi
Kilo == PyF(Lit(1000, 1))                \* 1e3
\* Faulty variant: a default c0 of 340.
DefaultC0_wrong == PyF(Lit(340, 1))
DefaultC0 == PyF(Lit(343, 1))
DefaultRho0 == PyF(Lit(121, 100))
DefaultGamma == PyF(Lit(14, 10))
DefaultAirViscosity == PyF(Lit(184, 10000000))
DefaultPrandtl == PyF(Lit(77, 100))
DefaultP0 == PyF(Lit(101325, 1))
\* Faulty variant: 9.80 for 9.08.
C9_08_typo == PyF(Lit(980, 100))
C9_08 == PyF(Lit(908, 100))
C11_9 == PyF(Lit(119, 10))
C10_8 == PyF(Lit(108, 10))
C10_3 == PyF(Lit(103, 10))
Em0_75 == PyF(Lit(-75, 100))             \* the exponents (-0.75), ...
Em0_73 == PyF(Lit(-73, 100))
Em0_70 == PyF(Lit(-70, 100))
Em0_59 == PyF(Lit(-59, 100))

\* A parameter's value in the call: the argument, else the default, else
\* the TypeError Python raises for a missing required argument.
Bind(arg, default) == IF arg.t = "absent" THEN default ELSE arg
Required == Raise("TypeError")

(***************************************************************************)
(* A call's frame: its parameters and locals by name, and exc, the         *)
(* exception that ended it ("none" while it runs).                         *)
(***************************************************************************)
Params == {"f", "sigma", "c0", "rho0", "tortuosity", "porosity", "vcl",
           "gamma", "air_viscosity", "prandtl", "P0"}
Locals == {"omega", "brackets_sqrt", "rho_c", "denominator_sqrt", "K",
           "Zc", "kc"}
NoFrame == [n \in Params \cup Locals \cup {"exc"} |->
               IF n = "exc" THEN "none" ELSE Absent]

\* Entering the function with the parameters bound.
Enter(l) ==
    IF \E p \in Params : IsRaise(l[p]) THEN [l EXCEPT !.exc = "TypeError"]
    ELSE l

\* The assignment statement  name = v,  v an expression over the frame: it
\* is not reached after an exception, and an exception raised in E ends the
\* call.
Assign(l, name, v) ==
    IF l.exc # "none" THEN l
    ELSE IF IsRaise(v) THEN [l EXCEPT !.exc = v.v]
    ELSE [l EXCEPT ![name] = v]

\* Faulty variant: the returned arrays lose their last element.
Outcome_truncated(l) ==
    IF l.exc = "none"
    THEN [exc |-> "none",
          Zc |-> [l.Zc EXCEPT !.v = SubSeq(l.Zc.v, 1, Len(l.Zc.v) - 1)],
          kc |-> [l.kc EXCEPT !.v = SubSeq(l.kc.v, 1, Len(l.kc.v) - 1)]]
    ELSE [exc |-> l.exc, Zc |-> Absent, kc |-> Absent]

\* return Zc, kc: what the caller gets from the frame l.
Outcome(l) ==
    IF l.exc = "none" THEN [exc |-> "none", Zc |-> l.Zc, kc |-> l.kc]
    ELSE [exc |-> l.exc, Zc |-> Absent, kc |-> Absent]

(***************************************************************************)
(* macroscopic_models.delany_bazley(f, sigma, c0=343, rho0=1.21)           *)
(***************************************************************************)
delany_bazley_Zc(l) ==
    Assign(l, "Zc",
        PyMul(PyMul(l.rho0, l.c0),
              PySub(PyAdd(One,
                          PyMul(C9_08,
                                PyPow(PyDiv(PyMul(Kilo, l.f), l.sigma), Em0_75))),
                    PyMul(PyMul(J, C11_9),
                          PyPow(PyDiv(PyMul(Kilo, l.f), l.sigma), Em0_73)))))

delany_bazley_kc(l) ==
    Assign(l, "kc",
        PyMul(PyDiv(PyMul(PyMul(Two, Pi), l.f), l.c0),
              PySub(PyAdd(One,
                          PyMul(C10_8,
                                PyPow(PyDiv(PyMul(Kilo, l.f), l.sigma), Em0_70))),
                    PyMul(PyMul(J, C10_3),
                          PyPow(PyDiv(PyMul(Kilo, l.f), l.sigma), Em0_59)))))

delany_bazley(f, sigma, c0, rho0) ==
    delany_bazley_kc(delany_bazley_Zc(
        Enter([NoFrame EXCEPT !.f = f, !.sigma = sigma,
                              !.c0 = Bind(c0, DefaultC0),
                              !.rho0 = Bind(rho0, DefaultRho0)])))

(***************************************************************************)
(* utils.delany_bazley(f, sigma, c0, rho0)                                 *)
(***************************************************************************)
utils_delany_bazley_Zc(l) ==
    Assign(l, "Zc",
        PyMul(PyMul(l.rho0, l.c0),
              PySub(PyAdd(One,
                          PyMul(C9_08,
                                PyPow(PyMul(Kilo, PyDiv(l.f, l.sigma)), Em0_75))),
                    PyMul(PyMul(J, C11_9),
                          PyPow(PyMul(Kilo, PyDiv(l.f, l.sigma)), Em0_73)))))

\* Faulty variant: the bracket of the other module, (1 + ...) - 1j*10.3*(...).
utils_delany_bazley_kc_unswapped(l) ==
    Assign(l, "kc",
        PyMul(PyDiv(PyMul(PyMul(Two, Pi), l.f), l.c0),
              PySub(PyAdd(One,
                          PyMul(C10_8,
                                PyPow(PyMul(Kilo, PyDiv(l.f, l.sigma)), Em0_70))),
                    PyMul(PyMul(J, C10_3),
                          PyPow(PyMul(Kilo, PyDiv(l.f, l.sigma)), Em0_59)))))

utils_delany_bazley_kc(l) ==
    Assign(l, "kc",
        PyMul(PyDiv(PyMul(PyMul(Two, Pi), l.f), l.c0),
              PyAdd(PyMul(C10_3,
                          PyPow(PyMul(Kilo, PyDiv(l.f, l.sigma)), Em0_59)),
                    PyMul(J,
                          PyAdd(One,
                                PyMul(C10_8,
                                      PyPow(PyMul(Kilo, PyDiv(l.f, l.sigma)),
                                            Em0_70)))))))

utils_delany_bazley(f, sigma, c0, rho0) ==
    utils_delany_bazley_kc(utils_delany_bazley_Zc(
        Enter([NoFrame EXCEPT !.f = f, !.sigma = sigma,
                              !.c0 = Bind(c0, Required),
                              !.rho0 = Bind(rho0, Required)])))

(***************************************************************************)
(* macroscopic_models.jca(f, sigma, tortuosity, porosity,                  *)
(*     viscous_characteristic_length, rho0=1.21, gamma=1.4,                *)
(*     air_viscosity=1.84e-5, prandtl=0.77, P0=101325)                     *)
(* vcl is the parameter viscous_characteristic_length.                     *)
(***************************************************************************)
\* Faulty variant: omega kept away from zero.
jca_omega_guarded(l) ==
    Assign(l, "omega",
        PyAdd(PyMul(PyMul(Two, Pi), l.f), PyF(Lit(1, 1000))))
jca_omega(l) ==
    Assign(l, "omega",
        PyMul(PyMul(Two, Pi), l.f))

jca_brackets_sqrt(l) ==
    Assign(l, "brackets_sqrt",
        NpSqrt(PyAdd(One,
            PyDiv(PyMul(PyMul(PyMul(PyMul(FourJ, PyPow(l.tortuosity, Two)),
                                    l.air_viscosity), l.rho0), l.omega),
                  PyMul(PyMul(PyPow(l.sigma, Two), PyPow(l.vcl, Two)),
                        PyPow(l.porosity, Two))))))

\* Faulty variant: the coupling term upside down,
\* (1j*tortuosity*rho0*omega) / (sigma*porosity).
jca_rho_c_inverted(l) ==
    Assign(l, "rho_c",
        PyMul(PyMul(l.rho0, l.tortuosity),
              PyAdd(One,
                    PyMul(PyDiv(PyMul(PyMul(PyMul(J, l.tortuosity), l.rho0),
                                      l.omega),
                                PyMul(l.sigma, l.porosity)),
                          l.brackets_sqrt))))

jca_rho_c(l) ==
    Assign(l, "rho_c",
        PyMul(PyMul(l.rho0, l.tortuosity),
              PyAdd(One,
                    PyMul(PyDiv(PyMul(l.sigma, l.porosity),
                                PyMul(PyMul(PyMul(J, l.tortuosity), l.rho0),
                                      l.omega)),
                          l.brackets_sqrt))))

jca_denominator_sqrt(l) ==
    Assign(l, "denominator_sqrt",
        NpSqrt(PyAdd(One,
            PyDiv(PyMul(PyMul(PyMul(PyMul(PyMul(FourJ, PyPow(l.tortuosity, Two)),
                                          l.air_viscosity), l.rho0), l.prandtl),
                        l.omega),
                  PyMul(PyMul(PyPow(l.sigma, Two), PyPow(l.vcl, Two)),
                        PyPow(l.porosity, Two))))))

jca_K(l) ==
    Assign(l, "K",
        PyDiv(PyMul(l.gamma, l.P0),
              PySub(l.gamma,
                    PyDiv(PySub(l.gamma, One),
                          PyAdd(One,
                                PyMul(PyDiv(PyMul(l.sigma, l.porosity),
                                            PyMul(PyMul(PyMul(PyMul(J,
                                                      l.tortuosity), l.rho0),
                                                      l.prandtl), l.omega)),
                                      l.denominator_sqrt))))))

\* Faulty variant: the other square root.
jca_Zc_other_root(l) ==
    Assign(l, "Zc",
        PySub(PyF(Zero), NpSqrt(PyMul(l.K, l.rho_c))))
jca_Zc(l) ==
    Assign(l, "Zc",
        NpSqrt(PyMul(l.K, l.rho_c)))
jca_kc(l) ==
    Assign(l, "kc",
        PyMul(l.omega, NpSqrt(PyDiv(l.rho_c, l.K))))

jca_enter(f, sigma, tortuosity, porosity, vcl, rho0, gamma, air_viscosity, prandtl, P0) ==
    Enter([NoFrame EXCEPT !.f = f, !.sigma = sigma,
               !.tortuosity = tortuosity, !.porosity = porosity,
               !.vcl = vcl, !.rho0 = Bind(rho0, DefaultRho0),
               !.gamma = Bind(gamma, DefaultGamma),
               !.air_viscosity = Bind(air_viscosity, DefaultAirViscosity),
               !.prandtl = Bind(prandtl, DefaultPrandtl),
               !.P0 = Bind(P0, DefaultP0)])

jca(f, sigma, tortuosity, porosity, vcl, rho0, gamma, air_viscosity, prandtl, P0) ==
    jca_kc(jca_Zc(jca_K(jca_denominator_sqrt(jca_rho_c(jca_brackets_sqrt(
        jca_omega(jca_enter(f, sigma, tortuosity, porosity, vcl, rho0, gamma,
                            air_viscosity, prandtl, P0))))))))

(***************************************************************************)
(* The calls the model makes.  Every frequency vector is tried with the    *)
(* reference material; every combination of scalar arguments is tried with *)
(* the vectors of at most one element.                                     *)
(***************************************************************************)
\* A finite float whose square overflows (as 1e200 does in binary64).
Huge == Mk(2^(Prec - 1), EMax \div 2)

FreqValid == {Lit(100, 1), Lit(1000, 1)}
FreqDegenerate == {Zero, Lit(-1000, 1)}
\* The vector of the end-to-end scenario, [100, 1000, 5000].
Scenario == <<Lit(100, 1), Lit(1000, 1), Lit(5000, 1)>>
FreqSeqs ==
    UNION {[1..n -> FreqValid \cup FreqDegenerate] : n \in 0..MaxLen}
        \cup {Scenario}
\* f is passed as an ndarray or as a plain list.
FreqArgs == {NdF(s) : s \in FreqSeqs} \cup {PyList(s) : s \in FreqSeqs}
ShortFreqArgs == {f \in FreqArgs : Len(f.v) <= 1}

SigmaRef == PyF(Lit(4000, 1))
SigmaValid == {SigmaRef, PyF(Lit(25000, 1)), PyF(Lit(1024000, 1))}
SigmaDegenerate == {PyF(Zero), PyF(Lit(-4000, 1)), PyF(Huge)}
\* c0 and rho0: left out, the defaults passed explicitly, other values.
AirDefault == <<Absent, Absent>>
AirArgs == {AirDefault, <<DefaultC0, DefaultRho0>>,
            <<PyF(Lit(340, 1)), PyF(Lit(12, 10))>>, <<PyF(Lit(340, 1)), Absent>>}

\* <<f, sigma, <<c0, rho0>>>>
DelanyBazleyCalls ==
    (FreqArgs \X {SigmaRef} \X {AirDefault, <<DefaultC0, DefaultRho0>>})
        \cup (ShortFreqArgs \X (SigmaValid \cup SigmaDegenerate) \X AirArgs)

TortuosityRef == PyF(Lit(11, 10))
PorosityRef == PyF(Lit(95, 100))
VclRef == PyF(Lit(1, 10000))
TortuosityArgs == {TortuosityRef, PyF(Lit(5, 10)), PyF(Huge)}
PorosityArgs == {PorosityRef, PyF(Zero), PyF(Lit(15, 10)), PyF(Huge)}
VclArgs == {VclRef, PyF(Zero), PyF(Lit(-1, 10000)), PyF(Huge)}
\* rho0, gamma, air_viscosity, prandtl, P0: left out, or passed.
OptDefault == <<Absent, Absent, Absent, Absent, Absent>>
OptArgs == {OptDefault,
            <<PyF(Lit(12, 10)), PyF(Lit(14, 10)), PyF(Lit(18, 1000000)),
              PyF(Lit(7, 10)), PyF(Lit(100000, 1))>>}

\* <<f, <<sigma, tortuosity, porosity, viscous_characteristic_length>>, opt>>
JcaCalls ==
    (FreqArgs \X {<<SigmaRef, TortuosityRef, PorosityRef, VclRef>>} \X OptArgs)
        \cup (ShortFreqArgs
                \X ((SigmaValid \cup SigmaDegenerate) \X TortuosityArgs
                        \X PorosityArgs \X VclArgs)
                \X OptArgs)

VARIABLES pc, fn, args, ret, locals
vars == <<pc, fn, args, ret, locals>>

\* args: the arguments as the caller passed them (Absent: left out);
\* locals: the frame when the call ended; ret: what the caller got.
NoArgs == [n \in Params |-> Absent]

Init ==
    /\ pc = "idle"
    /\ fn = "none"
    /\ args = NoArgs
    /\ ret = [exc |-> "none", Zc |-> Absent, kc |-> Absent]
    /\ locals = NoFrame

Done(name, a, l) ==
    /\ fn' = name
    /\ args' = a
    /\ locals' = l
    /\ ret' = Outcome(l)
    /\ pc' = "done"

CallDelanyBazley ==
    /\ pc = "idle"
    /\ \E c \in DelanyBazleyCalls :
          Done("delany_bazley",
               [NoArgs EXCEPT !.f = c[1], !.sigma = c[2],
                              !.c0 = c[3][1], !.rho0 = c[3][2]],
               delany_bazley(c[1], c[2], c[3][1], c[3][2]))

CallUtilsDelanyBazley ==
    /\ pc = "idle"
    /\ \E c \in DelanyBazleyCalls :
          Done("utils.delany_bazley",
               [NoArgs EXCEPT !.f = c[1], !.sigma = c[2],
                              !.c0 = c[3][1], !.rho0 = c[3][2]],
               utils_delany_bazley(c[1], c[2], c[3][1], c[3][2]))

CallJca ==
    /\ pc = "idle"
    /\ \E c \in JcaCalls :
          Done("jca",
               [NoArgs EXCEPT !.f = c[1], !.sigma = c[2][1],
                              !.tortuosity = c[2][2], !.porosity = c[2][3],
                              !.vcl = c[2][4], !.rho0 = c[3][1],
                              !.gamma = c[3][2], !.air_viscosity = c[3][3],
                              !.prandtl = c[3][4], !.P0 = c[3][5]],
               jca(c[1], c[2][1], c[2][2], c[2][3], c[2][4],
                   c[3][1], c[3][2], c[3][3], c[3][4], c[3][5]))

Next == CallDelanyBazley \/ CallUtilsDelanyBazley \/ CallJca

Spec == Init /\ [][Next]_vars

(***************************************************************************)
(* The claims.  A state with pc = "done" is one finished call: fn and args *)
(* say which, locals is its frame and ret what it returned or raised.      *)
(***************************************************************************)
Called(name) == pc = "done" /\ fn = name
Returned == pc = "done" /\ ret.exc = "none"
FreqIsArray == args.f.t = "farray"
PositiveF(x) == IsFinite(x) /\ Sign(x) > 0
FreqPositive ==
    FreqIsArray /\ \A i \in 1..Len(args.f.v) : PositiveF(args.f.v[i])
Pos(name) == args[name].t = "float" /\ PositiveF(args[name].v)
\* A positive scalar whose square is a finite float.
Squarable(name) == Pos(name) /\ IsFinite(FMul(args[name].v, args[name].v))
JcaValid ==
    Squarable("sigma") /\ Squarable("tortuosity") /\ Squarable("porosity")
        /\ Squarable("vcl")

\* The formulas of the Delany-Bazley model at one frequency fi, by real and
\* imaginary part, with x = 1000 * fi / sigma.
C1_1e3 == Lit(1000, 1)
C1_2pi == FMul(FTwo, Lit(314159265, 100000000))
C1_9_08 == Lit(908, 100)
C1_11_9 == Lit(119, 10)
C1_10_8 == Lit(108, 10)
C1_10_3 == Lit(103, 10)
C1_m0_75 == Lit(-75, 100)
C1_m0_73 == Lit(-73, 100)
C1_m0_70 == Lit(-70, 100)
C1_m0_59 == Lit(-59, 100)
C1_x(fi) == FDiv(FMul(C1_1e3, fi), args.sigma.v)
C1_pow(fi, y) == FPow(C1_x(fi), y)
C1_rc == FMul(locals.rho0.v, locals.c0.v)
C1_w(fi) ==
    FDiv(FMul(C1_2pi, fi), locals.c0.v)
C1_Zc(fi) ==
    Cx(FMul(C1_rc, FAdd(FOne, FMul(C1_9_08, C1_pow(fi, C1_m0_75)))),
       FMul(C1_rc, FNeg(FMul(C1_11_9, C1_pow(fi, C1_m0_73)))))
C1_kc(fi) ==
    Cx(FMul(C1_w(fi),
            FAdd(FOne, FMul(C1_10_8, C1_pow(fi, C1_m0_70)))),
       FMul(C1_w(fi), FNeg(FMul(C1_10_3, C1_pow(fi, C1_m0_59)))))

\* C1: macroscopic_models.delany_bazley, called with an array of positive
\* frequencies and a positive sigma, returns for every index i
\* Zc[i] = rho0*c0*[(1 + 9.08 x^-0.75) - j 11.9 x^-0.73] and
\* kc[i] = (2 pi f[i] / c0)*[(1 + 10.8 x^-0.70) - j 10.3 x^-0.59],
\* x = 1000 f[i] / sigma, and both imaginary parts are negative.
C1_Formula ==
    Called("delany_bazley") /\ FreqPositive /\ Pos("sigma") =>
        /\ ret.exc = "none"
        /\ ret.Zc = NdC([i \in 1..Len(args.f.v) |-> C1_Zc(args.f.v[i])])
        /\ ret.kc = NdC([i \in 1..Len(args.f.v) |-> C1_kc(args.f.v[i])])
        /\ \A i \in 1..Len(args.f.v) :
              Sign(ret.Zc.v[i].im) < 0 /\ Sign(ret.kc.v[i].im) < 0
C1_Witness ==
    /\ Called("delany_bazley") /\ FreqPositive /\ Pos("sigma")
    /\ Len(args.f.v) = 2 /\ args.f.v[1] # args.f.v[2]
    /\ ret.exc = "none" /\ Len(ret.Zc.v) = 2

\* The formulas of the Johnson-Champoux-Allard model at one frequency fi,
\* over the parameters as bound in the frame.  The square root and the
\* coupling term of the bulk modulus are those of the density with the
\* Prandtl number as one more factor (pr).
C2_c(x) == Cx(x, Zero)
C2_sq(name) == FMul(locals[name].v, locals[name].v)
C2_four_j == Cx(Zero, Lit(4, 1))
C2_j == Cx(Zero, FOne)
C2_omega(fi) == FMul(C1_2pi, fi)
C2_times(z, pr) == IF pr THEN CMul(z, C2_c(locals.prandtl.v)) ELSE z
C2_branch(fi, pr) ==
    CSqrt(CAdd(C2_c(FOne),
        CDiv(CMul(C2_times(CMul(CMul(CMul(C2_four_j,
                                C2_c(C2_sq("tortuosity"))),
                           C2_c(locals.air_viscosity.v)),
                      C2_c(locals.rho0.v)), pr),
                  C2_c(C2_omega(fi))),
             C2_c(FMul(FMul(C2_sq("sigma"), C2_sq("vcl")),
                       C2_sq("porosity"))))))
C2_coupling(fi, pr) ==
    CDiv(C2_c(FMul(locals.sigma.v, locals.porosity.v)),
         CMul(C2_times(CMul(CMul(C2_j, C2_c(locals.tortuosity.v)),
                            C2_c(locals.rho0.v)), pr),
              C2_c(C2_omega(fi))))
C2_rho_c(fi) ==
    CMul(C2_c(FMul(locals.rho0.v, locals.tortuosity.v)),
         CAdd(C2_c(FOne),
              CMul(C2_coupling(fi, FALSE), C2_branch(fi, FALSE))))
C2_K(fi) ==
    CDiv(C2_c(FMul(locals.gamma.v, locals.P0.v)),
         CSub(C2_c(locals.gamma.v),
              CDiv(C2_c(FSub(locals.gamma.v, FOne)),
                   CAdd(C2_c(FOne),
                        CMul(C2_coupling(fi, TRUE), C2_branch(fi, TRUE))))))

\* C2: jca, called with an array of positive frequencies and positive
\* sigma, tortuosity, porosity and viscous_characteristic_length (their
\* squares within the float range), returns for every index i
\* Zc[i] = sqrt(K[i] * rho_c[i]) and kc[i] = omega[i] * sqrt(rho_c[i] / K[i])
\* with omega[i] = 2 pi f[i] and rho_c, K the dynamic density and bulk
\* modulus; the square roots are principal ones, so Re(Zc[i]) >= 0.
C2_Formula ==
    Called("jca") /\ FreqPositive /\ JcaValid =>
        /\ ret.exc = "none"
        /\ \A i \in 1..Len(args.f.v) :
              /\ locals.omega.v[i] = C2_omega(args.f.v[i])
              /\ locals.rho_c.v[i] = C2_rho_c(args.f.v[i])
              /\ locals.K.v[i] = C2_K(args.f.v[i])
              /\ ret.Zc.v[i] = CSqrt(CMul(locals.K.v[i], locals.rho_c.v[i]))
              /\ ret.kc.v[i] =
                    CMul(C2_c(locals.omega.v[i]),
                         CSqrt(CDiv(locals.rho_c.v[i], locals.K.v[i])))
              /\ FLeq(Zero, ret.Zc.v[i].re)
              /\ CIsFinite(ret.Zc.v[i]) /\ CIsFinite(ret.kc.v[i])
C2_Witness ==
    /\ Called("jca") /\ FreqPositive /\ JcaValid
    /\ Len(args.f.v) = 2 /\ args.f.v[1] # args.f.v[2]
    /\ ret.exc = "none" /\ Len(ret.Zc.v) = 2
    /\ FLess(Zero, ret.Zc.v[1].re) /\ FLess(ret.Zc.v[1].im, Zero)

\* The call is one the documentation allows: an array of positive
\* frequencies, positive material parameters, every required argument
\* passed.
ValidCall ==
    /\ FreqPositive /\ Pos("sigma")
    /\ fn = "utils.delany_bazley" => args.c0 # Absent /\ args.rho0 # Absent
    /\ fn = "jca" => JcaValid

\* C3: every function, on every valid input whatever its length (the empty
\* array too), returns a pair (Zc, kc) of arrays of the length of f; and
\* whenever a call on an array returns, both have that length.
C3_Formula ==
    /\ pc = "done" /\ ValidCall => ret.exc = "none"
    /\ Returned /\ FreqIsArray =>
          /\ ret.Zc.t = "carray" /\ Len(ret.Zc.v) = Len(args.f.v)
          /\ ret.kc.t = "carray" /\ Len(ret.kc.v) = Len(args.f.v)
C3_Witness ==
    /\ Called("jca") /\ ValidCall /\ args.f = NdF(<<>>)
    /\ ret = [exc |-> "none", Zc |-> NdC(<<>>), kc |-> NdC(<<>>)]
\* The same function called again on another frequency vector, the other
\* arguments as they were.
Recall(f) ==
    CASE fn = "delany_bazley" ->
            delany_bazley(f, args.sigma, args.c0, args.rho0)
      [] fn = "utils.delany_bazley" ->
            utils_delany_bazley(f, args.sigma, args.c0, args.rho0)
      [] fn = "jca" ->
            jca(f, args.sigma, args.tortuosity, args.porosity, args.vcl,
                args.rho0, args.gamma, args.air_viscosity, args.prandtl,
                args.P0)
CallOn(s) == Outcome(Recall(NdF(s)))
SplitAgrees(a, b) ==
    /\ a.exc = ret.exc /\ b.exc = ret.exc
    /\ ret.exc = "none" =>
          /\ ret.Zc = NdC(a.Zc.v \o b.Zc.v)
          /\ ret.kc = NdC(a.kc.v \o b.kc.v)

\* C4: no cross-element coupling.  For every call on an array f and every
\* position k, the call on f gives what the calls on f[1..k] and on
\* f[k+1..] give, concatenated (and raises what they raise).
C4_Formula ==
    pc = "done" /\ FreqIsArray =>
        \A k \in 0..Len(args.f.v) :
            SplitAgrees(CallOn(SubSeq(args.f.v, 1, k)),
                        CallOn(SubSeq(args.f.v, k + 1, Len(args.f.v))))
C4_Witness ==
    /\ Called("jca") /\ ValidCall /\ Len(args.f.v) = 2
    /\ args.f.v[1] # args.f.v[2] /\ Returned
    /\ ret.Zc.v[1] # ret.Zc.v[2] /\ ret.kc.v[1] # ret.kc.v[2]
    /\ ret.Zc.v = CallOn(<<args.f.v[1]>>).Zc.v \o CallOn(<<args.f.v[2]>>).Zc.v

\* C5, as the specification states it: the empirical model called with the
\* plain list [100, 1000, 5000] and sigma = 4000 completes without error
\* and returns three Zc and three kc values, those of the formula.
C5_sigma == PyF(Lit(4000, 1))
C5_ListScenario ==
    /\ pc = "done" /\ fn \in {"delany_bazley", "utils.delany_bazley"}
    /\ args.f = PyList(Scenario) /\ args.sigma = C5_sigma
    /\ fn = "utils.delany_bazley" => args.c0 # Absent /\ args.rho0 # Absent
C5_Original ==
    C5_ListScenario =>
        /\ ret.exc = "none"
        /\ Len(ret.Zc.v) = 3 /\ Len(ret.kc.v) = 3
        /\ fn = "delany_bazley" =>
              \A i \in 1..3 : /\ ret.Zc.v[i] = C1_Zc(args.f.v[i])
                              /\ ret.kc.v[i] = C1_kc(args.f.v[i])

\* The values of c0 and rho0 that the specification gives as defaults.
C6_c0 == PyF(Lit(343, 1))
C6_rho0 == PyF(Lit(121, 100))
Omitted == args.c0 = Absent \/ args.rho0 = Absent

\* C6, amended: c0 and rho0 are optional in macroscopic_models.delany_bazley
\* only; a call that leaves them out ends as the call with c0 = 343 and
\* rho0 = 1.21 does.  utils.delany_bazley has no defaults: a call that
\* leaves one of them out raises TypeError.
C6_Amended ==
    /\ Called("delany_bazley") /\ args.c0 = Absent /\ args.rho0 = Absent =>
          /\ ret = Outcome(delany_bazley(args.f, args.sigma, C6_c0, C6_rho0))
          /\ FreqIsArray => ret.exc = "none"
    /\ Called("delany_bazley") /\ args.c0 # Absent /\ args.rho0 = Absent =>
          ret = Outcome(delany_bazley(args.f, args.sigma, args.c0, C6_rho0))
    /\ Called("utils.delany_bazley") /\ Omitted => ret.exc = "TypeError"
C6_Witness ==
    /\ Called("utils.delany_bazley") /\ FreqPositive /\ Pos("sigma")
    /\ Len(args.f.v) = 1
    /\ args.c0 = Absent /\ args.rho0 = Absent
    /\ ret.exc = "TypeError"
\* C6, as the specification states it: in both variants a call with only f
\* and sigma succeeds and gives the result of the call with c0 = 343 and
\* rho0 = 1.21.
C6_Original ==
    /\ pc = "done" /\ fn \in {"delany_bazley", "utils.delany_bazley"}
    /\ args.c0 = Absent /\ args.rho0 = Absent /\ FreqPositive /\ Pos("sigma")
    => /\ ret.exc = "none"
       /\ ret = Outcome(IF fn = "delany_bazley"
                        THEN delany_bazley(args.f, args.sigma, C6_c0, C6_rho0)
                        ELSE utils_delany_bazley(args.f, args.sigma,
                                                 C6_c0, C6_rho0))

\* C7: jca with otherwise valid parameters and an array f returns also when
\* some f[i] = 0, and Zc[i] and kc[i] are then inf or nan, never finite.
C7_Formula ==
    Called("jca") /\ FreqIsArray /\ JcaValid
        /\ (\A i \in 1..Len(args.f.v) :
               IsZero(args.f.v[i]) \/ PositiveF(args.f.v[i])) =>
        /\ ret.exc = "none"
        /\ \A i \in 1..Len(args.f.v) :
              IsZero(args.f.v[i]) =>
                  ~CIsFinite(ret.Zc.v[i]) /\ ~CIsFinite(ret.kc.v[i])
C7_Witness ==
    /\ Called("jca") /\ FreqIsArray /\ JcaValid /\ Len(args.f.v) = 2
    /\ PositiveF(args.f.v[1]) /\ IsZero(args.f.v[2])
    /\ ret.exc = "none"
    /\ CIsFinite(ret.Zc.v[1]) /\ ~CIsFinite(ret.Zc.v[2])
    /\ CIsFinite(ret.kc.v[1]) /\ ~CIsFinite(ret.kc.v[2])

\* A finite Python float whose square is beyond the float range.
Overflows(name) ==
    /\ args[name].t = "float" /\ IsFinite(args[name].v)
    /\ IsInf(FMul(args[name].v, args[name].v))
Squared == {"sigma", "tortuosity", "porosity", "vcl"}
ReturnsArrays ==
    /\ ret.exc = "none"
    /\ Len(ret.Zc.v) = Len(args.f.v) /\ Len(ret.kc.v) = Len(args.f.v)

C9_limit == FMul(locals.rho0.v, locals.tortuosity.v)
C9_sigma == PyF(Lit(1024000, 1))
C9_0_99 == Lit(99, 100)
C9_1_01 == Lit(101, 100)
C9_0_9 == Lit(9, 10)
C9_0_01 == Lit(1, 100)
C9_100 == Lit(100, 1)
C9_LargeSigma == args.sigma = C9_sigma
C10_x_macro(fi) == FDiv(FMul(C1_1e3, fi), args.sigma.v)
C10_x_utils(fi) == FMul(C1_1e3, FDiv(fi, args.sigma.v))
C10_SameX ==
    \A i \in 1..Len(args.f.v) :
        C10_x_macro(args.f.v[i]) = C10_x_utils(args.f.v[i])
C10_utils ==
    Outcome(utils_delany_bazley(args.f, args.sigma, locals.c0, locals.rho0))
TimesJ(z) == Cx(FNeg(z.im), z.re)
C10_0_02 == Lit(2, 100)
Near(x, y) == FLeq(FAbs(FSub(x, y)), FMul(C10_0_02, FAbs(y)))
CNear(z, w) == Near(z.re, w.re) /\ Near(z.im, w.im)

\* The outcome u of the utils variant is that of this call up to rounding,
\* and exactly.
C10_Close(u) ==
    /\ u.exc = "none"
    /\ \A i \in 1..Len(args.f.v) :
          /\ CNear(u.Zc.v[i], ret.Zc.v[i])
          /\ CNear(u.kc.v[i], TimesJ(ret.kc.v[i]))
C10_Exact(u) ==
    /\ u.Zc = ret.Zc
    /\ \A i \in 1..Len(args.f.v) : u.kc.v[i] = TimesJ(ret.kc.v[i])
C10_Agrees(u) == C10_Close(u) /\ (C10_SameX => C10_Exact(u))
C10_Rotated(u) == C10_Exact(u) /\ u.kc.v[1] # ret.kc.v[1]

=============================================================================
